---- MODULE Spec2Model ----
(***************************************************************************)
(* libgssapi, src/libgssapi/src/name.rs: the Name wrapper over the native  *)
(* gss_name_t handle.  The Rust methods are modelled as operators that     *)
(* take the receiver's pointer, the arguments and the native library's     *)
(* answer; the actions apply them to the program state: the Name and Buf   *)
(* values the caller holds, and the native library's name objects and      *)
(* buffer regions.                                                         *)
(***************************************************************************)
EXTENDS Integers, Sequences, FiniteSets, TLC

\* ------------------------------------------------------------------ bounds
\* Name values the caller can hold at once.
MaxNames == 2
\* Native name objects the library allocates in one run.
MaxRefs == 2
\* Buf values the caller can hold at once.
MaxBufs == 1
\* Native buffer regions the library allocates in one run.
MaxRegions == 1

\* --------------------------------------------------------------- constants
\* ptr::null_mut(): GSS_C_NO_NAME, and the value pointer of an empty buffer.
NULL == 0
GSS_S_COMPLETE == 0
\* Major status words the native library returns on failure: a calling error
\* with a routine error, and a word that carries only a
\* supplementary-information bit.
GSS_S_CONTINUE_NEEDED == 2^0
GSS_S_BAD_NAME == 2 * 65536
GSS_S_CALL_INACCESSIBLE_READ == 1 * 16777216
FailMajors == {GSS_S_CONTINUE_NEEDED,
               GSS_S_CALL_INACCESSIBLE_READ + GSS_S_BAD_NAME}
\* The minor status word (mechanism specific, opaque) that comes with a major
\* status word.
MinorOf(major) ==
    IF major = GSS_S_COMPLETE THEN 0
    ELSE IF major = GSS_S_BAD_NAME THEN 100001 ELSE 100002

\* Option<&Oid>: None, a name type or mechanism the library supports, and one
\* it does not.
NoOid == "None"
Oids == {NoOid, "supported", "unsupported"}

\* The byte strings handed to Name::new: "", the two bytes of U+00E9
\* and a truncated two-byte sequence.
Inputs == {<< >>, <<195, 169>>, <<195>>}

Refs == 1..MaxRefs
Regions == 1..MaxRegions

VARIABLES
    names,      \* the Name values in scope, oldest first: the gss_name_t of each
    heap,       \* native name objects: ref -> NoObj, Freed or [bytes, live, made]
    relcount,   \* ref -> the number of gss_release_name calls that received it
    bufs,       \* the Buf values in scope, oldest first: the descriptor of each
    regions,    \* native buffer regions: likewise
    brelcount,  \* region -> the number of gss_release_buffer calls for it
    last        \* what the last operation did

vars == <<names, heap, relcount, bufs, regions, brelcount, last>>

NoObj == [live |-> FALSE, made |-> FALSE]

\* --------------------------------------------------------- native library
\* The native calls, by their contract: major = GSS_S_COMPLETE on success and
\* only then an output; a failed call leaves its output parameters as they
\* were passed in.  nd is the library's choice of failure status words.

IsLive(p) == p \in Refs /\ heap[p].made /\ heap[p].live

FreeRefs == {r \in Refs : ~heap[r].made}
NextRef == CHOOSE r \in FreeRefs : \A q \in FreeRefs : r <= q

FreeRegions == {r \in Regions : ~regions[r].made}
NextRegion == CHOOSE r \in FreeRegions : \A q \in FreeRegions : r <= q

\* input_name_buffer is read as length bytes at its value pointer, here the
\* caller's memory mem.
gss_import_name(buf, mem, kind, out, nd) ==
    LET bytes == SubSeq(mem, 1, buf.length) IN
    IF Len(bytes) > 0 /\ kind # "unsupported"
    THEN [major |-> GSS_S_COMPLETE, minor |-> 0, out |-> NextRef,
          obj |-> [bytes |-> bytes, live |-> TRUE, made |-> TRUE]]
    ELSE [major |-> nd.fmaj, minor |-> MinorOf(nd.fmaj), out |-> out, obj |-> NoObj]

gss_canonicalize_name(p, mech, out, nd) ==
    IF IsLive(p) /\ mech # "unsupported"
    THEN [major |-> GSS_S_COMPLETE, minor |-> 0, out |-> NextRef,
          obj |-> heap[p]]
    ELSE [major |-> nd.fmaj, minor |-> MinorOf(nd.fmaj), out |-> out, obj |-> NoObj]

gss_duplicate_name(p, out, nd) ==
    IF IsLive(p)
    THEN [major |-> GSS_S_COMPLETE, minor |-> 0, out |-> NextRef, obj |-> heap[p]]
    ELSE [major |-> nd.fmaj, minor |-> MinorOf(nd.fmaj), out |-> out, obj |-> NoObj]

\* name_equal is written on success only: 1 when the two names denote the same
\* principal, 0 when they do not.
SamePrincipal(p, q) == heap[p].bytes = heap[q].bytes

gss_compare_name(p, q, eq, nd) ==
    IF IsLive(p) /\ IsLive(q)
    THEN [major |-> GSS_S_COMPLETE, minor |-> 0,
          name_equal |-> IF SamePrincipal(p, q) THEN 1 ELSE 0]
    ELSE [major |-> nd.fmaj, minor |-> MinorOf(nd.fmaj), name_equal |-> eq]

\* gss_release_name frees the object whatever status it returns.
Freed == [live |-> FALSE, made |-> TRUE]
gss_release_name(h, p) ==
    IF p \in Refs THEN [h EXCEPT ![p] = Freed] ELSE h

\* The buffer-writing calls allocate a region and describe it in the output
\* descriptor.  On failure the library either leaves the descriptor as passed
\* or (nd.falloc) has already stored a region in it.
Desc(v, n) == [value |-> v, length |-> n]

FillBuffer(ok, bytes, out, nd) ==
    IF ok
    THEN [major |-> GSS_S_COMPLETE, minor |-> 0,
          out |-> Desc(NextRegion, Len(bytes)),
          region |-> [bytes |-> bytes, live |-> TRUE, made |-> TRUE]]
    ELSE IF nd.falloc
    THEN [major |-> nd.fmaj, minor |-> MinorOf(nd.fmaj), out |-> Desc(NextRegion, 0),
          region |-> [bytes |-> << >>, live |-> TRUE, made |-> TRUE]]
    ELSE [major |-> nd.fmaj, minor |-> MinorOf(nd.fmaj), out |-> out, region |-> NoObj]

\* The exported token: a mechanism tag, then the name.
ExportToken(p) == <<4, 1>> \o heap[p].bytes

gss_export_name(p, out, nd) ==
    FillBuffer(IsLive(p), IF IsLive(p) THEN ExportToken(p) ELSE << >>, out, nd)

gss_display_name(p, out, nd) ==
    FillBuffer(IsLive(p), IF IsLive(p) THEN heap[p].bytes ELSE << >>, out, nd)

gss_localname(p, mech, out, nd) ==
    FillBuffer(IsLive(p) /\ mech # "unsupported",
               IF IsLive(p) THEN heap[p].bytes ELSE << >>, out, nd)

gss_release_buffer(rg, v) ==
    IF v \in Regions THEN [rg EXCEPT ![v] = Freed] ELSE rg

\* The library's choices.
ND == [fmaj : FailMajors, falloc : BOOLEAN]
NDName == {nd \in ND : ~nd.falloc}

\* ------------------------------------------------------- util.rs, error.rs
\* Buf::empty(): a zeroed gss_buffer_desc.
Buf_empty == Desc(NULL, 0)

\* BufRef::from(s): a view of the caller's bytes; the address is the caller's,
\* outside the library's regions.
CallerMem == MaxRegions + 1
BufRef_from(s) == Desc(CallerMem, Len(s))

\* impl Drop for Buf: the values passed to gss_release_buffer.
Buf_drop(d) == IF d.value # NULL THEN <<d.value>> ELSE << >>

\* impl Deref for Buf: the bytes of the region.
Buf_deref(rg, d) ==
    IF d.value \in Regions THEN SubSeq(rg[d.value].bytes, 1, d.length) ELSE << >>

\* MajorFlags::from_bits_retain: the flags value holds the word as it is, the
\* bits that name no flag included.
from_bits_retain(bits) == bits

\* Error { major, minor }
Error(major, minor) == [major |-> major, minor |-> minor]
NoError == Error(0, 0)

\* What an operation returns: Ok(Name(p)), Ok(buf), Err(e), a bool, (), or the
\* fmt::Result of a formatter write.
NoRet == [tag |-> "none", name |-> NULL, buf |-> Buf_empty, err |-> NoError,
          b |-> FALSE]
OkName(p) == [NoRet EXCEPT !.tag = "OkName", !.name = p]
OkBuf(d) == [NoRet EXCEPT !.tag = "OkBuf", !.buf = d]
Err(e) == [NoRet EXCEPT !.tag = "Err", !.err = e]
Bool(b) == [NoRet EXCEPT !.tag = "bool", !.b = b]
Unit == [NoRet EXCEPT !.tag = "unit"]
FmtResult(ok) == [NoRet EXCEPT !.tag = IF ok THEN "fmtOk" ELSE "fmtErr"]

\* What an operation did: the status words the native call wrote, the object or
\* region the library allocated, the value returned, the pointers passed to
\* gss_release_name and to gss_release_buffer, and the formatter write.
NoWrite == [lit |-> "", arg |-> << >>, res |-> TRUE]
NoEffect ==
    [major |-> GSS_S_COMPLETE, minor |-> GSS_S_COMPLETE, called |-> FALSE,
     newRef |-> NULL, obj |-> NoObj, newRegion |-> NULL, region |-> NoObj,
     ret |-> NoRet, nameRel |-> << >>, bufRel |-> << >>, written |-> NoWrite]

NameCall(r) ==
    [NoEffect EXCEPT !.major = r.major, !.minor = r.minor, !.called = TRUE,
                     !.newRef = IF r.obj.made THEN r.out ELSE NULL,
                     !.obj = r.obj]

BufCall(r) ==
    [NoEffect EXCEPT !.major = r.major, !.minor = r.minor, !.called = TRUE,
                     !.newRegion = IF r.region.made THEN r.out.value ELSE NULL,
                     !.region = r.region]

\* ----------------------------------------------------------------- name.rs
\* Drop with the null test inverted.
Name_drop_inverted(p) == IF p = NULL THEN <<p>> ELSE << >>

\* Drop without the null test.
Name_drop_unconditional(p) == <<p>>

\* impl Drop for Name: the pointers passed to gss_release_name.
Name_drop(p) == IF p # NULL THEN <<p>> ELSE << >>

\* Name::from_c
Name_from_c(ptr) == ptr

\* Name::new without the test of the major status.
Name_new_unchecked(s, kind, nd) ==
    LET buf == BufRef_from(s)
        r == gss_import_name(buf, s, kind, NULL, nd)
    IN  [NameCall(r) EXCEPT !.ret = OkName(r.out)]

\* Name::new
Name_new(s, kind, nd) ==
    LET buf == BufRef_from(s)
        r == gss_import_name(buf, s, kind, NULL, nd)
    IN  [NameCall(r) EXCEPT !.ret =
            IF r.major = GSS_S_COMPLETE
            THEN OkName(r.out)
            ELSE Err(Error(from_bits_retain(r.major), r.minor))]

\* Name::canonicalize wrapping the receiver's pointer instead of `out`.
Name_canonicalize_alias(self, mech, nd) ==
    LET r == gss_canonicalize_name(self, mech, NULL, nd)
    IN  [NameCall(r) EXCEPT !.ret =
            IF r.major = GSS_S_COMPLETE
            THEN OkName(self)
            ELSE Err(Error(from_bits_retain(r.major), r.minor))]

\* Name::canonicalize
Name_canonicalize(self, mech, nd) ==
    LET r == gss_canonicalize_name(self, mech, NULL, nd)
    IN  [NameCall(r) EXCEPT !.ret =
            IF r.major = GSS_S_COMPLETE
            THEN OkName(r.out)
            ELSE Err(Error(from_bits_retain(r.major), r.minor))]

\* Name::duplicate wrapping the receiver's pointer instead of `copy`.
Name_duplicate_alias(self, nd) ==
    LET r == gss_duplicate_name(self, NULL, nd)
    IN  [NameCall(r) EXCEPT !.ret =
            IF r.major = GSS_S_COMPLETE
            THEN OkName(self)
            ELSE Err(Error(from_bits_retain(r.major), r.minor))]

\* Name::duplicate
Name_duplicate(self, nd) ==
    LET r == gss_duplicate_name(self, NULL, nd)
    IN  [NameCall(r) EXCEPT !.ret =
            IF r.major = GSS_S_COMPLETE
            THEN OkName(r.out)
            ELSE Err(Error(from_bits_retain(r.major), r.minor))]

\* Name::export testing only the error bits of the major status (GSS_ERROR),
\* so that a word of supplementary bits alone counts as success.
Name_export_gss_error(self, nd) ==
    LET r == gss_export_name(self, Buf_empty, nd)
    IN  IF r.major \div 65536 = 0
        THEN [BufCall(r) EXCEPT !.ret = OkBuf(r.out)]
        ELSE [BufCall(r) EXCEPT
                !.ret = Err(Error(from_bits_retain(r.major), r.minor)),
                !.bufRel = Buf_drop(r.out)]

\* Name::export: on the error path `out` goes out of scope in the function.
Name_export(self, nd) ==
    LET r == gss_export_name(self, Buf_empty, nd)
    IN  IF r.major = GSS_S_COMPLETE
        THEN [BufCall(r) EXCEPT !.ret = OkBuf(r.out)]
        ELSE [BufCall(r) EXCEPT
                !.ret = Err(Error(from_bits_retain(r.major), r.minor)),
                !.bufRel = Buf_drop(r.out)]

\* Name::display_name forgetting `out` on the error path.
Name_display_name_leak(self, nd) ==
    LET r == gss_display_name(self, Buf_empty, nd)
    IN  IF r.major = GSS_S_COMPLETE
        THEN [BufCall(r) EXCEPT !.ret = OkBuf(r.out)]
        ELSE [BufCall(r) EXCEPT
                !.ret = Err(Error(from_bits_retain(r.major), r.minor))]

\* Name::display_name
Name_display_name(self, nd) ==
    LET r == gss_display_name(self, Buf_empty, nd)
    IN  IF r.major = GSS_S_COMPLETE
        THEN [BufCall(r) EXCEPT !.ret = OkBuf(r.out)]
        ELSE [BufCall(r) EXCEPT
                !.ret = Err(Error(from_bits_retain(r.major), r.minor)),
                !.bufRel = Buf_drop(r.out)]

\* Name::local_name (feature "localname")
Name_local_name(self, mechs, nd) ==
    LET r == gss_localname(self, mechs, Buf_empty, nd)
    IN  IF r.major = GSS_S_COMPLETE
        THEN [BufCall(r) EXCEPT !.ret = OkBuf(r.out)]
        ELSE [BufCall(r) EXCEPT
                !.ret = Err(Error(from_bits_retain(r.major), r.minor)),
                !.bufRel = Buf_drop(r.out)]

\* eq with `eq` starting at 1.
Name_eq_init_one(self, other, nd) ==
    LET r == gss_compare_name(self, other, 1, nd)
    IN  [NoEffect EXCEPT !.major = r.major, !.minor = r.minor, !.called = TRUE,
                         !.ret = Bool(r.name_equal = 1)]

\* eq comparing the two pointers.
Name_eq_ptr(self, other, nd) ==
    LET r == gss_compare_name(self, other, 0, nd)
    IN  [NoEffect EXCEPT !.major = r.major, !.minor = r.minor, !.called = TRUE,
                         !.ret = Bool(self = other)]

\* impl PartialEq for Name: eq starts at 0 and the major status is not read.
Name_eq(self, other, nd) ==
    LET r == gss_compare_name(self, other, 0, nd)
    IN  [NoEffect EXCEPT !.major = r.major, !.minor = r.minor, !.called = TRUE,
                         !.ret = Bool(r.name_equal = 1)]

\* std::str::from_utf8(&buf).is_ok(): well-formed UTF-8 from position i on.
Cont(b, i) == i <= Len(b) /\ b[i] >= 128 /\ b[i] <= 191

RECURSIVE Utf8From(_, _)
Utf8From(b, i) ==
    IF i > Len(b) THEN TRUE
    ELSE IF b[i] < 128 THEN Utf8From(b, i + 1)
    ELSE IF b[i] >= 194 /\ b[i] <= 223
    THEN Cont(b, i + 1) /\ Utf8From(b, i + 2)
    ELSE IF b[i] >= 224 /\ b[i] <= 239
    THEN /\ Cont(b, i + 1) /\ Cont(b, i + 2)
         /\ (b[i] = 224 => b[i + 1] >= 160)
         /\ (b[i] = 237 => b[i + 1] <= 159)
         /\ Utf8From(b, i + 3)
    ELSE IF b[i] >= 240 /\ b[i] <= 244
    THEN /\ Cont(b, i + 1) /\ Cont(b, i + 2) /\ Cont(b, i + 3)
         /\ (b[i] = 240 => b[i + 1] >= 144)
         /\ (b[i] = 244 => b[i + 1] <= 143)
         /\ Utf8From(b, i + 4)
    ELSE FALSE

from_utf8_is_ok(b) == Utf8From(b, 1)

\* write!(f, lit, arg): what is handed to the formatter, and whether the
\* formatter's writer took it (fok).
Write(lit, arg, fok) == [lit |-> lit, arg |-> arg, res |-> fok]

\* fmt returning the decoding failure instead of writing the placeholder.
Debug_fmt_propagate(self, fok, nd) ==
    LET d == Name_display_name(self, nd) IN
    IF d.ret.tag = "OkBuf"
    THEN LET buf == d.ret.buf
             rg == IF d.newRegion # NULL
                   THEN [regions EXCEPT ![d.newRegion] = d.region] ELSE regions
             bytes == Buf_deref(rg, buf)
         IN  IF from_utf8_is_ok(bytes)
             THEN [d EXCEPT !.written = Write("{}", bytes, fok),
                            !.ret = FmtResult(fok),
                            !.bufRel = d.bufRel \o Buf_drop(buf)]
             ELSE [d EXCEPT !.ret = FmtResult(FALSE),
                            !.bufRel = d.bufRel \o Buf_drop(buf)]
    ELSE LET w == Write("<name can't be displayed>", << >>, fok)
         IN  [d EXCEPT !.written = w, !.ret = FmtResult(w.res)]

\* impl fmt::Debug for Name.  fmt returns what the write returned; the Buf that
\* display_name returned is dropped when fmt returns.
Debug_fmt(self, fok, nd) ==
    LET d == Name_display_name(self, nd) IN
    IF d.ret.tag = "OkBuf"
    THEN LET buf == d.ret.buf
             rg == IF d.newRegion # NULL
                   THEN [regions EXCEPT ![d.newRegion] = d.region] ELSE regions
             bytes == Buf_deref(rg, buf)
             w == IF from_utf8_is_ok(bytes)
                  THEN Write("{}", bytes, fok)
                  ELSE Write("<name can't be decoded>", << >>, fok)
         IN  [d EXCEPT !.written = w, !.ret = FmtResult(w.res),
                       !.bufRel = d.bufRel \o Buf_drop(buf)]
    ELSE LET w == Write("<name can't be displayed>", << >>, fok)
         IN  [d EXCEPT !.written = w, !.ret = FmtResult(w.res)]

\* impl fmt::Display for Name
Display_fmt(self, fok, nd) == Debug_fmt(self, fok, nd)

\* ------------------------------------------------------------------- state
Init ==
    /\ names = << >>
    /\ heap = [r \in Refs |-> NoObj]
    /\ relcount = [r \in Refs |-> 0]
    /\ bufs = << >>
    /\ regions = [r \in Regions |-> NoObj]
    /\ brelcount = [r \in Regions |-> 0]
    /\ last = [op |-> "init", self |-> 0, other |-> 0, input |-> << >>,
               selfPtr |-> NULL, otherPtr |-> NULL, out |-> 0, outBuf |-> 0,
               e |-> NoEffect]

\* The places of the values in scope; a new value takes the next place.
Slots == 1..MaxNames
BufSlots == 1..MaxBufs
scope == DOMAIN names
bufScope == DOMAIN bufs
Remove(seq, i) == SubSeq(seq, 1, i - 1) \o SubSeq(seq, i + 1, Len(seq))

Count(x, seq) == Cardinality({i \in DOMAIN seq : seq[i] = x})

RECURSIVE ReleaseNames(_, _)
ReleaseNames(h, seq) ==
    IF seq = << >> THEN h
    ELSE ReleaseNames(gss_release_name(h, Head(seq)), Tail(seq))

RECURSIVE ReleaseBufs(_, _)
ReleaseBufs(rg, seq) ==
    IF seq = << >> THEN rg
    ELSE ReleaseBufs(gss_release_buffer(rg, Head(seq)), Tail(seq))

\* The effect e of an operation on the Names at s and o, or on the bytes a:
\* the library's allocations and releases, and the returned Name or Buf bound
\* by the caller.
Commit(op, s, o, a, e) ==
    LET h1 == IF e.newRef # NULL THEN [heap EXCEPT ![e.newRef] = e.obj] ELSE heap
        g1 == IF e.newRegion # NULL
              THEN [regions EXCEPT ![e.newRegion] = e.region] ELSE regions
    IN  /\ heap' = ReleaseNames(h1, e.nameRel)
        /\ relcount' = [r \in Refs |-> relcount[r] + Count(r, e.nameRel)]
        /\ regions' = ReleaseBufs(g1, e.bufRel)
        /\ brelcount' = [r \in Regions |-> brelcount[r] + Count(r, e.bufRel)]
        /\ names' = IF e.ret.tag = "OkName" THEN Append(names, e.ret.name) ELSE names
        /\ bufs' = IF e.ret.tag = "OkBuf" THEN Append(bufs, e.ret.buf) ELSE bufs
        /\ last' = [op |-> op, self |-> s, other |-> o, input |-> a,
                    selfPtr |-> IF s # 0 THEN names[s] ELSE NULL,
                    otherPtr |-> IF o # 0 THEN names[o] ELSE NULL,
                    out |-> IF e.ret.tag = "OkName" THEN Len(names) + 1 ELSE 0,
                    outBuf |-> IF e.ret.tag = "OkBuf" THEN Len(bufs) + 1 ELSE 0,
                    e |-> e]

RoomForName == Len(names) < MaxNames /\ FreeRefs # {}
RoomForBuf == Len(bufs) < MaxBufs /\ FreeRegions # {}

\* ----------------------------------------------------------------- actions
\* Each action applies the method to every answer the library can give.
New(s, kind) ==
    /\ RoomForName
    /\ \E e \in {Name_new(s, kind, nd) : nd \in NDName} :
         Commit("new", 0, 0, s, e)

Canonicalize(s, mech) ==
    /\ s \in scope /\ RoomForName
    /\ \E e \in {Name_canonicalize(names[s], mech, nd) : nd \in NDName} :
         Commit("canonicalize", s, 0, << >>, e)

Duplicate(s) ==
    /\ s \in scope /\ RoomForName
    /\ \E e \in {Name_duplicate(names[s], nd) : nd \in NDName} :
         Commit("duplicate", s, 0, << >>, e)

Export(s) ==
    /\ s \in scope /\ RoomForBuf
    /\ \E e \in {Name_export(names[s], nd) : nd \in ND} :
         Commit("export", s, 0, << >>, e)

DisplayName(s) ==
    /\ s \in scope /\ RoomForBuf
    /\ \E e \in {Name_display_name(names[s], nd) : nd \in ND} :
         Commit("display_name", s, 0, << >>, e)

LocalName(s, mechs) ==
    /\ s \in scope /\ RoomForBuf
    /\ \E e \in {Name_local_name(names[s], mechs, nd) : nd \in ND} :
         Commit("local_name", s, 0, << >>, e)

Eq(s, o) ==
    /\ s \in scope /\ o \in scope
    /\ \E e \in {Name_eq(names[s], names[o], nd) : nd \in NDName} :
         Commit("eq", s, o, << >>, e)

DebugFmt(s, fok) ==
    /\ s \in scope /\ FreeRegions # {}
    /\ \E e \in {Debug_fmt(names[s], fok, nd) : nd \in ND} :
         Commit("debug_fmt", s, 0, << >>, e)

DisplayFmt(s, fok) ==
    /\ s \in scope /\ FreeRegions # {}
    /\ \E e \in {Display_fmt(names[s], fok, nd) : nd \in ND} :
         Commit("display_fmt", s, 0, << >>, e)

\* The crate hands from_c a name the library returned to it (a context's
\* source name, say), or GSS_C_NO_NAME.
FromC(given) ==
    /\ RoomForName
    /\ LET p == IF given THEN NextRef ELSE NULL
           e == [NoEffect EXCEPT
                   !.newRef = p,
                   !.obj = [bytes |-> <<195, 169>>, live |-> TRUE, made |-> TRUE],
                   !.ret = OkName(Name_from_c(p))]
       IN  Commit("from_c", 0, 0, << >>, e)

\* The scope of the Name at s ends.  gss_release_name returns whatever status
\* the library chooses.
DropName(s) ==
    /\ s \in scope
    /\ \E major \in {GSS_S_COMPLETE, GSS_S_BAD_NAME} :
         LET rel == Name_drop(names[s])
             e == IF rel = << >> THEN [NoEffect EXCEPT !.ret = Unit]
                  ELSE [NoEffect EXCEPT !.major = major,
                                        !.minor = MinorOf(major),
                                        !.called = TRUE, !.nameRel = rel,
                                        !.ret = Unit]
         IN  /\ heap' = ReleaseNames(heap, e.nameRel)
             /\ relcount' = [r \in Refs |-> relcount[r] + Count(r, e.nameRel)]
             /\ names' = Remove(names, s)
             /\ last' = [op |-> "drop", self |-> s, other |-> 0, input |-> << >>,
                         selfPtr |-> names[s], otherPtr |-> NULL,
                         out |-> 0, outBuf |-> 0, e |-> e]
             /\ UNCHANGED <<bufs, regions, brelcount>>

\* The scope of the Buf at b ends.
DropBuf(b) ==
    /\ b \in bufScope
    /\ LET e == [NoEffect EXCEPT !.bufRel = Buf_drop(bufs[b]), !.ret = Unit]
       IN  /\ regions' = ReleaseBufs(regions, e.bufRel)
           /\ brelcount' = [r \in Regions |-> brelcount[r] + Count(r, e.bufRel)]
           /\ bufs' = Remove(bufs, b)
           /\ last' = [op |-> "drop_buf", self |-> 0, other |-> 0, input |-> << >>,
                       selfPtr |-> NULL, otherPtr |-> NULL,
                       out |-> 0, outBuf |-> b, e |-> e]
           /\ UNCHANGED <<names, heap, relcount>>

Next ==
    \/ \E s \in Inputs, kind \in Oids : New(s, kind)
    \/ \E s \in Slots, mech \in Oids : Canonicalize(s, mech)
    \/ \E s \in Slots : Duplicate(s)
    \/ \E s \in Slots : Export(s)
    \/ \E s \in Slots : DisplayName(s)
    \/ \E s \in Slots, mechs \in Oids : LocalName(s, mechs)
    \/ \E s \in Slots, o \in Slots : Eq(s, o)
    \/ \E s \in Slots, fok \in BOOLEAN : DebugFmt(s, fok)
    \/ \E s \in Slots, fok \in BOOLEAN : DisplayFmt(s, fok)
    \/ \E given \in BOOLEAN : FromC(given)
    \/ \E s \in Slots : DropName(s)
    \/ \E b \in BufSlots : DropBuf(b)

Spec == Init /\ [][Next]_vars

\* -------------------------------------------------------------- properties
\* The Name values in scope that hold r, and the Buf values that hold region g.
Owners(r) == {i \in DOMAIN names : names[i] = r}
Holders(g) == {i \in DOMAIN bufs : bufs[i].value = g}

NameReturning == {"new", "canonicalize", "duplicate"}
BufReturning == {"export", "display_name", "local_name"}
Formatting == {"debug_fmt", "display_fmt"}
Failed == last.e.called /\ last.e.major # GSS_S_COMPLETE

\* C1: every native name reference is passed to gss_release_name exactly once,
\* at the drop of the one Name that owns it: a live reference has one owner in
\* scope and no release, a reference whose owner is gone has exactly one
\* release, and only a drop releases, and only the pointer of the dropped Name.
C1_ReleasedExactlyOnce ==
    /\ \A r \in Refs :
         IF heap[r].made /\ heap[r].live
         THEN relcount[r] = 0 /\ Cardinality(Owners(r)) = 1
         ELSE relcount[r] = (IF heap[r].made THEN 1 ELSE 0) /\ Owners(r) = {}
    /\ last.e.nameRel # << >> =>
         last.op = "drop" /\ last.e.nameRel = <<last.selfPtr>>

\* A Name was dropped and its reference released once, while another Name
\* still owns a live reference.
C1_Witness ==
    /\ last.op = "drop" /\ last.selfPtr # NULL /\ relcount[last.selfPtr] = 1
    /\ \E i \in DOMAIN names : IsLive(names[i])

\* C2: new, canonicalize, duplicate, export, display_name and local_name return
\* Ok exactly when the native call wrote GSS_S_COMPLETE; for every other
\* major status they return the Error that holds that word and the minor
\* status the call wrote.
C2_OkIffComplete ==
    last.op \in NameReturning \cup BufReturning =>
        /\ last.e.called
        /\ last.e.ret.tag \in {"OkName", "OkBuf", "Err"}
        /\ last.e.ret.tag = "Err" <=> last.e.major # GSS_S_COMPLETE
        /\ last.e.ret.tag = "Err" =>
             last.e.ret.err = Error(last.e.major, last.e.minor)
        /\ last.e.ret.tag = "OkName" <=>
             (last.op \in NameReturning /\ last.e.major = GSS_S_COMPLETE)

\* export failed with a major status of supplementary bits alone and a
\* non-zero minor status.
C2_Witness ==
    /\ last.op = "export" /\ last.e.major = GSS_S_CONTINUE_NEEDED
    /\ last.e.ret.tag = "Err" /\ last.e.ret.err.minor # 0

\* C3: when the native call of new, canonicalize or duplicate fails, no Name
\* is produced, nothing is passed to gss_release_name, the library allocated
\* no object, and no live object is without an owner.
C3_FailureProducesNothing ==
    /\ (last.op \in NameReturning /\ Failed) =>
         /\ last.e.ret.tag = "Err" /\ last.out = 0
         /\ last.e.nameRel = << >>
         /\ last.e.newRef = NULL
    /\ \A r \in Refs : IsLive(r) => Owners(r) # {}

\* Name::new failed while the caller holds a Name.
C3_Witness ==
    /\ last.op = "new" /\ Failed /\ last.e.ret.tag = "Err"
    /\ \E i \in DOMAIN names : IsLive(names[i])

\* C4: eq returns a bool; false whenever gss_compare_name failed, and true only
\* when both names are live and denote the same principal.
C4_EqFalseOnFailure ==
    last.op = "eq" =>
        /\ last.e.ret.tag = "bool"
        /\ Failed => ~last.e.ret.b
        /\ last.e.ret.b =>
             /\ IsLive(last.selfPtr) /\ IsLive(last.otherPtr)
             /\ SamePrincipal(last.selfPtr, last.otherPtr)

\* gss_compare_name failed (one of the two Names holds GSS_C_NO_NAME) and eq
\* returned false.
C4_Witness ==
    /\ last.op = "eq" /\ Failed /\ ~last.e.ret.b
    /\ last.selfPtr # last.otherPtr

\* C5: a successful duplicate returns a Name that owns a live reference other
\* than the source's and denotes the same principal, so the two compare equal;
\* every Name in scope holds a reference no drop has released, whatever was
\* dropped before, and operations on it succeed; no reference is released
\* twice.
C5_DuplicateIndependent ==
    /\ (last.op = "duplicate" /\ last.e.ret.tag = "OkName") =>
         /\ last.e.ret.name # last.selfPtr
         /\ IsLive(last.e.ret.name) /\ IsLive(last.selfPtr)
         /\ SamePrincipal(last.e.ret.name, last.selfPtr)
         /\ Owners(last.e.ret.name) = {last.out}
         /\ Owners(last.selfPtr) = {last.self}
    /\ (/\ last.op = "eq" /\ IsLive(last.selfPtr) /\ IsLive(last.otherPtr)
        /\ SamePrincipal(last.selfPtr, last.otherPtr)) => last.e.ret.b
    /\ \A i \in DOMAIN names :
         names[i] # NULL => IsLive(names[i]) /\ relcount[names[i]] = 0
    /\ (last.op \in {"duplicate", "export", "display_name"}
        /\ last.selfPtr # NULL) => ~Failed
    /\ \A r \in Refs : relcount[r] <= 1

\* duplicate succeeded: source and copy are in scope with different references.
C5_Witness ==
    /\ last.op = "duplicate" /\ last.e.ret.tag = "OkName"
    /\ names[last.out] # names[last.self]
    /\ IsLive(names[last.out]) /\ IsLive(names[last.self])

\* C6: canonicalize, succeeding or failing, leaves the receiver as it was: the
\* same pointer, not released, still live; on success the returned Name owns
\* the reference the library has just produced, and only it does.
C6_CanonicalizeFrame ==
    last.op = "canonicalize" =>
        /\ names[last.self] = last.selfPtr
        /\ last.e.nameRel = << >>
        /\ last.selfPtr # NULL =>
             IsLive(last.selfPtr) /\ relcount[last.selfPtr] = 0
        /\ last.e.ret.tag = "OkName" =>
             /\ last.e.ret.name # last.selfPtr
             /\ last.e.ret.name = last.e.newRef
             /\ Owners(last.e.ret.name) = {last.out}
             /\ Owners(last.selfPtr) = {last.self}

\* canonicalize succeeded.
C6_Witness ==
    /\ last.op = "canonicalize" /\ last.e.ret.tag = "OkName"
    /\ IsLive(names[last.self]) /\ IsLive(names[last.out])

\* C7: Debug and Display fmt return what the formatter write returned: they
\* write "<name can't be displayed>" when display_name failed,
\* "<name can't be decoded>" when its bytes are not UTF-8, and the text itself
\* otherwise.
C7_FmtNeverPropagates ==
    last.op \in Formatting =>
        /\ last.e.ret = FmtResult(last.e.written.res)
        /\ Failed =>
             last.e.written.lit = "<name can't be displayed>"
        /\ (~Failed /\ ~from_utf8_is_ok(last.e.region.bytes)) =>
             last.e.written.lit = "<name can't be decoded>"
        /\ (~Failed /\ from_utf8_is_ok(last.e.region.bytes)) =>
             /\ last.e.written.lit = "{}"
             /\ last.e.written.arg = last.e.region.bytes
        /\ (~Failed /\ last.e.region.bytes = <<195>>) =>
             last.e.written.lit = "<name can't be decoded>"
        /\ (~Failed /\ last.e.region.bytes = <<195, 169>>) =>
             last.e.written.arg = <<195, 169>>

\* Display fmt of a name whose display bytes are not UTF-8 wrote the
\* placeholder and returned Ok.
C7_Witness ==
    /\ last.op = "display_fmt" /\ ~Failed
    /\ last.e.written.lit = "<name can't be decoded>"
    /\ last.e.ret.tag = "fmtOk"

\* C8: a Name that Name::new returns denotes the principal of the bytes it was
\* given; two Names compare equal exactly when their bytes are the same,
\* whether or not they hold the same reference.
C8_NewEquality ==
    /\ (last.op = "new" /\ last.e.ret.tag = "OkName") =>
         /\ IsLive(last.e.ret.name)
         /\ heap[last.e.ret.name].bytes = last.input
         /\ Owners(last.e.ret.name) = {last.out}
    /\ (last.op = "eq" /\ IsLive(last.selfPtr) /\ IsLive(last.otherPtr)) =>
         (last.e.ret.b <=>
            heap[last.selfPtr].bytes = heap[last.otherPtr].bytes)

\* Two Names with different references compared equal.
C8_Witness ==
    /\ last.op = "eq" /\ last.e.ret.b
    /\ last.selfPtr # last.otherPtr

\* C9: the drop of a Name that holds the null pointer calls nothing; the drop
\* of any other Name passes its pointer to gss_release_name once and returns
\* (), whatever status the call returns.
C9_DropNullIsNoOp ==
    last.op = "drop" =>
        /\ last.e.ret = Unit
        /\ last.selfPtr = NULL => ~last.e.called /\ last.e.nameRel = << >>
        /\ last.selfPtr # NULL =>
             last.e.called /\ last.e.nameRel = <<last.selfPtr>>

\* A Name that holds the null pointer was dropped.
C9_Witness ==
    last.op = "drop" /\ last.selfPtr = NULL /\ ~last.e.called

\* C10: a region the library allocated is held by exactly one Buf while it is
\* live and has been passed to gss_release_buffer exactly once when it is not;
\* export, display_name and local_name hand the Buf to the caller on success
\* and release what the call allocated on failure; the caller's bytes are
\* never passed to gss_release_buffer, and Name::new releases no buffer.
C10_BufferOwnedOnce ==
    /\ \A g \in Regions :
         IF regions[g].made /\ regions[g].live
         THEN brelcount[g] = 0 /\ Cardinality(Holders(g)) = 1
         ELSE brelcount[g] = (IF regions[g].made THEN 1 ELSE 0)
              /\ Holders(g) = {}
    /\ (last.op \in BufReturning /\ ~Failed) =>
         /\ last.e.ret.tag = "OkBuf" /\ last.e.bufRel = << >>
         /\ bufs[last.outBuf] = last.e.ret.buf
         /\ last.e.ret.buf.value = last.e.newRegion
    /\ (last.op \in BufReturning /\ Failed) =>
         /\ last.outBuf = 0
         /\ last.e.bufRel =
              (IF last.e.newRegion # NULL THEN <<last.e.newRegion>> ELSE << >>)
    /\ \A i \in DOMAIN last.e.bufRel : last.e.bufRel[i] # CallerMem
    /\ last.op = "new" => last.e.bufRel = << >>

\* display_name failed after the library had stored a region in the output
\* buffer, and the region was released.
C10_Witness ==
    /\ last.op = "display_name" /\ Failed /\ last.e.newRegion # NULL
    /\ brelcount[last.e.newRegion] = 1

====
